---- MODULE Spec2Model ----
(***************************************************************************)
(* Model of the local secrets vault of Citadel Guard:                      *)
(*   - SecureVaultManager      (lib/crypto: session key, auto-lock timer)  *)
(*   - MasterPasswordService   (one-time master password binding)          *)
(*   - SecureStorageService    (envelope-encrypted record container)       *)
(* setupMasterPassword and unlockVault are split at the await of the key   *)
(* derivation; what runs before it and what runs after it are one action   *)
(* each.  A call of the record store is awaited by its caller and is one   *)
(* action.                                                                 *)
(***************************************************************************)
EXTENDS Integers, Sequences, FiniteSets, TLC

(***************************************************************************)
(* Bounds of the model.                                                    *)
(***************************************************************************)
MaxCalls == 2
MaxTime == 2
MaxItems == 2
NumSalts == 2
NumItemKeys == 1

(* Clock ticks in one auto-lock period. *)
TicksPerTimeout == 2

(* AUTO_LOCK_TIME = 15 * 60 * 1000 ms, in clock ticks. *)
AUTO_LOCK_TIME == TicksPerTimeout

NoUser == "null"
(* null, for a reference to an object *)
Null == [null |-> TRUE]
(* null, for the timer handle *)
NoTimer == 0
NoPassword == <<>>
NoEmail == "null"

(* Firebase accounts; the application signs in by email only, so every     *)
(* account has an e-mail address.                                          *)
Users == {"u1", "u2"}
Email(uid) == IF uid = "u1" THEN "u1@example.com" ELSE "u2@example.com"

CallIds == 1..MaxCalls
Salts == 1..NumSalts

(***************************************************************************)
(* Passphrases, as the sequences of their characters.                      *)
(***************************************************************************)
LowerChars == {"a","b","c","d","e","f","g","h","i","j","k","l","m",
               "n","o","p","q","r","s","t","u","v","w","x","y","z"}
UpperChars == {"A","B","C","D","E","F","G","H","I","J","K","L","M",
               "N","O","P","Q","R","S","T","U","V","W","X","Y","Z"}
DigitChars == {"0","1","2","3","4","5","6","7","8","9"}
SpaceChars == {" "}

PwTroubador == <<"T","r","0","u","b","4","d","o","r","&","3","x","y","z">>
PwStrong == <<"S","t","r","0","n","g","!","P","a","s","s","1","2","3">>
PwHunter == <<"h","u","n","t","e","r","2">>

Passwords == {PwTroubador, PwStrong, PwHunter}

Min(a, b) == IF a < b THEN a ELSE b

(* calculatePasswordStrength(password).score *)
calculatePasswordStrength(password) ==
    LET len == Len(password)
        has(S) == \E i \in 1..len : password[i] \in S
        hasNot(S) == \E i \in 1..len : password[i] \notin S
        lengthPts == IF len >= 12 THEN 2 ELSE IF len >= 8 THEN 1 ELSE 0
        lowerPts == IF has(LowerChars) THEN 1 ELSE 0
        upperPts == IF has(UpperChars) THEN 1 ELSE 0
        digitPts == IF has(DigitChars) THEN 1 ELSE 0
        specialPts == IF hasNot(LowerChars \cup UpperChars \cup DigitChars)
                      THEN 1 ELSE 0
        longPts == IF len >= 16 THEN 1 ELSE 0
        symbolPts == IF hasNot(LowerChars \cup UpperChars \cup DigitChars
                               \cup SpaceChars)
                     THEN 1 ELSE 0
    IN  lengthPts + lowerPts + upperPts + digitPts + specialPts
          + longPts + symbolPts

(* The score below which setupMasterPassword rejects a passphrase. *)
MinStrengthScore == 6

(* A CryptoKey of the platform: its key material and whether               *)
(* crypto.subtle.exportKey may hand the material out.                      *)
CryptoKey(material, extractable) ==
    [material |-> material, extractable |-> extractable]

(* deriveKeyFromPassword(password, salt): PBKDF2 is deterministic in       *)
(* (password, salt) and taken to be collision free.  The key is derived    *)
(* as not extractable.                                                     *)
deriveKeyFromPassword(password, salt) ==
    CryptoKey([pw |-> password, salt |-> salt], FALSE)

VARIABLES
    currentUser,         \* MasterPasswordService.currentUser (uid or NoUser)
    masterPasswordData,  \* MasterPasswordService.masterPasswordData
    lsBinding,           \* localStorage["citadel-master-password-" + uid]
    lsVault,             \* localStorage["citadel-secure-vault"]
    lsPasswords,         \* localStorage["citadel-passwords"]
    vaultKey,            \* SecureVaultManager.vaultKey
    lockTimeout,         \* SecureVaultManager.lockTimeout (timer handle)
    timers,              \* pending setTimeout timers of the window
    now,                 \* Date.now(), in ticks
    calls,               \* asynchronous calls awaiting their crypto step
    result,              \* what the step just taken returned to its caller
    setupPassword,       \* history: passphrase of each account's binding
    attempt,             \* history: the unlocks since the last write
    saved,               \* history: the item last handed to save per (id, type)
    firedSinceUnlock,    \* history: vault-locked events since last unlock
    lastAccess           \* history: time of the last unlock or getVaultKey

vars == <<currentUser, masterPasswordData, lsBinding, lsVault, vaultKey,
          lockTimeout, timers, now, calls, result, setupPassword, attempt,
          saved, firedSinceUnlock, lastAccess, lsPasswords>>

mpsVars == <<currentUser, masterPasswordData, lsBinding, setupPassword>>
vaultVars == <<vaultKey, lockTimeout, timers, firedSinceUnlock, lastAccess>>
storeVars == <<lsVault, saved, lsPasswords>>

(***************************************************************************)
(* Base64 of a salt (btoa / atob).                                         *)
(***************************************************************************)
btoa(bytes) == <<"b64", bytes>>
atob(text) == text[2]

NoCall == [op |-> "idle"]
NoResult == [op |-> "none", out |-> "none"]

Init ==
    /\ currentUser = NoUser
    /\ masterPasswordData = Null
    /\ lsBinding = [u \in Users |-> Null]
    /\ lsVault = Null
    /\ lsPasswords = Null
    /\ vaultKey = Null
    /\ lockTimeout = NoTimer
    /\ timers = {}
    /\ now = 0
    /\ calls = [c \in CallIds |-> NoCall]
    /\ result = NoResult
    /\ setupPassword = [u \in Users |-> NoPassword]
    /\ attempt = "none"
    /\ saved = {}
    /\ firedSinceUnlock = 0
    /\ lastAccess = 0

(* A step that returns nothing to a caller. *)
Silent == result' = NoResult

(***************************************************************************)
(* SecureVaultManager                                                      *)
(***************************************************************************)

(* setTimeout hands out a handle no pending timer has. *)
NewTimerId(ts) ==
    IF ts = {} THEN 1
    ELSE 1 + (CHOOSE i \in {t.id : t \in ts} : \A t \in ts : t.id <= i)

clearTimeout(ts, handle) == {t \in ts : t.id # handle}

(* resetLockTimer() without the clearTimeout of the pending timer. *)
resetLockTimer_NoClear(ts, handle) ==
    LET id == NewTimerId(ts)
    IN  [timers |-> ts \cup {[id |-> id, due |-> now + AUTO_LOCK_TIME]},
         handle |-> id]

(* resetLockTimer(): the pending timers and the handle afterwards. *)
resetLockTimer(ts, handle) ==
    LET cleared == IF handle # NoTimer THEN clearTimeout(ts, handle) ELSE ts
        id == NewTimerId(cleared)
    IN  [timers |-> cleared \cup {[id |-> id, due |-> now + AUTO_LOCK_TIME]},
         handle |-> id]

(* lockVault() without the clearTimeout of the pending timer. *)
lockVaultTimers_NoClear(ts, handle) == ts

(* lockVault(): the pending timers afterwards (vaultKey and lockTimeout    *)
(* both become null).                                                      *)
lockVaultTimers(ts, handle) ==
    IF handle # NoTimer THEN clearTimeout(ts, handle) ELSE ts

(* The body of SecureVaultManager.unlockVault after the derivation. *)
VaultUnlocked(password, salt) ==
    LET r == resetLockTimer(timers, lockTimeout)
    IN  /\ vaultKey' = [masterKey |-> deriveKeyFromPassword(password, salt),
                        salt |-> salt, timestamp |-> now]
        /\ timers' = r.timers
        /\ lockTimeout' = r.handle
        /\ firedSinceUnlock' = 0
        /\ lastAccess' = now

(* SecureVaultManager.lockVault() *)
VaultLocked ==
    /\ vaultKey' = Null
    /\ timers' = lockVaultTimers(timers, lockTimeout)
    /\ lockTimeout' = NoTimer
    /\ UNCHANGED <<firedSinceUnlock, lastAccess>>

(* getVaultKey() without the call of resetLockTimer. *)
VaultKeyRead_NoReset ==
    IF vaultKey = Null
    THEN UNCHANGED vaultVars
    ELSE /\ lastAccess' = now
         /\ UNCHANGED <<vaultKey, timers, lockTimeout, firedSinceUnlock>>

(* SecureVaultManager.getVaultKey(): the timer is reset on access. *)
VaultKeyRead ==
    IF vaultKey = Null
    THEN UNCHANGED vaultVars
    ELSE LET r == resetLockTimer(timers, lockTimeout)
         IN  /\ timers' = r.timers
             /\ lockTimeout' = r.handle
             /\ lastAccess' = now
             /\ UNCHANGED <<vaultKey, firedSinceUnlock>>

(* MasterPasswordService.lockVault / AuthContext.lockVault *)
lockVault ==
    /\ VaultLocked
    /\ Silent
    /\ UNCHANGED <<mpsVars, storeVars, now, calls, attempt>>

(* A caller of getVaultKey(). *)
getVaultKey ==
    /\ VaultKeyRead
    /\ result' = [op |-> "getVaultKey",
                  out |-> IF vaultKey = Null THEN "null" ELSE "key"]
    /\ UNCHANGED <<mpsVars, storeVars, now, calls, attempt>>

(* The setTimeout callback of resetLockTimer: lockVault(), then the        *)
(* vault-locked event.                                                     *)
TimerFires(t) ==
    /\ t \in timers
    /\ t.due <= now
    /\ vaultKey' = Null
    /\ timers' = lockVaultTimers(timers \ {t}, lockTimeout)
    /\ lockTimeout' = NoTimer
    /\ firedSinceUnlock' = Min(firedSinceUnlock + 1, 2)
    /\ Silent
    /\ UNCHANGED <<lastAccess, mpsVars, storeVars, now, calls, attempt>>

Tick ==
    /\ now < MaxTime
    /\ now' = now + 1
    /\ Silent
    /\ UNCHANGED <<mpsVars, vaultVars, storeVars, calls, attempt>>

(***************************************************************************)
(* MasterPasswordService                                                   *)
(***************************************************************************)

isMasterPasswordSet ==
    IF currentUser = NoUser THEN FALSE ELSE masterPasswordData # Null

FreeCalls == {c \in CallIds : calls[c] = NoCall}
NewCall == CHOOSE c \in FreeCalls : \A d \in FreeCalls : c <= d

Returns(op, out, user, password) ==
    result' = [op |-> op, out |-> out, user |-> user, password |-> password]

(* loadUserMasterPasswordData(userUid): the binding kept in memory and the *)
(* stored item afterwards.                                                 *)
loadUserMasterPasswordData(userUid) ==
    LET parsed == lsBinding[userUid]
    IN  IF parsed # Null
        THEN IF parsed.userUid = userUid /\ parsed.isImmutable = TRUE
             THEN [data |-> parsed, stored |-> parsed]
             ELSE [data |-> Null, stored |-> Null]
        ELSE [data |-> Null, stored |-> Null]

(* The auth state listeners: MasterPasswordService's (registered first),   *)
(* then AuthContext's, which locks the vault when there is no user.        *)
AuthStateChanged(user) ==
    /\ user # currentUser
    /\ currentUser' = user
    /\ IF user # NoUser
       THEN LET l == loadUserMasterPasswordData(user)
            IN  /\ masterPasswordData' = l.data
                /\ lsBinding' = [lsBinding EXCEPT ![user] = l.stored]
                /\ UNCHANGED vaultVars
       ELSE /\ masterPasswordData' = Null
            /\ UNCHANGED lsBinding
            /\ VaultLocked
    /\ Silent
    /\ UNCHANGED <<setupPassword, storeVars, now, calls, attempt>>

(* setupMasterPassword with the strength check ahead of the already-set    *)
(* check.                                                                  *)
setupMasterPassword_StrengthFirst(password) ==
    /\ IF currentUser = NoUser \/ Email(currentUser) = NoEmail
       THEN /\ Returns("setup", "not_authenticated", currentUser, password)
            /\ UNCHANGED calls
       ELSE IF calculatePasswordStrength(password) < MinStrengthScore
       THEN /\ Returns("setup", "weak_password", currentUser, password)
            /\ UNCHANGED calls
       ELSE IF isMasterPasswordSet
       THEN /\ Returns("setup", "already_set", currentUser, password)
            /\ UNCHANGED calls
       ELSE /\ FreeCalls # {}
            /\ \E salt \in Salts :
                 calls' = [calls EXCEPT ![NewCall] =
                             [op |-> "setup", user |-> currentUser,
                              password |-> password, salt |-> salt]]
            /\ Silent
    /\ UNCHANGED <<mpsVars, vaultVars, storeVars, now, attempt>>

(* setupMasterPassword(password), up to the await of the key derivation. *)
setupMasterPassword(password) ==
    /\ IF currentUser = NoUser \/ Email(currentUser) = NoEmail
       THEN /\ Returns("setup", "not_authenticated", currentUser, password)
            /\ UNCHANGED calls
       ELSE IF isMasterPasswordSet
       THEN /\ Returns("setup", "already_set", currentUser, password)
            /\ UNCHANGED calls
       ELSE IF calculatePasswordStrength(password) < MinStrengthScore
       THEN /\ Returns("setup", "weak_password", currentUser, password)
            /\ UNCHANGED calls
       ELSE /\ FreeCalls # {}
            /\ \E salt \in Salts :
                 calls' = [calls EXCEPT ![NewCall] =
                             [op |-> "setup", user |-> currentUser,
                              password |-> password, salt |-> salt]]
            /\ Silent
    /\ UNCHANGED <<mpsVars, vaultVars, storeVars, now, attempt>>

(* The binding setupMasterPassword stores. *)
NewBinding(user, salt) ==
    [userUid |-> user, userEmail |-> Email(user), saltBase64 |-> btoa(salt),
     setupTimestamp |-> now, lastUsedTimestamp |-> now, isImmutable |-> TRUE]

(* setupMasterPassword after the await: the derivation may fail            *)
(* (unlockVault returns false), and localStorage.setItem may throw.        *)
setupMasterPasswordDone(c, derived, stored) ==
    /\ calls[c].op = "setup"
    /\ calls' = [calls EXCEPT ![c] = NoCall]
    /\ IF ~derived
       THEN /\ Returns("setup", "failed", calls[c].user, calls[c].password)
            /\ UNCHANGED <<mpsVars, vaultVars, attempt>>
       ELSE /\ VaultUnlocked(calls[c].password, calls[c].salt)
            /\ attempt' = "setup"
            /\ IF ~stored
               THEN /\ Returns("setup", "failed", calls[c].user,
                               calls[c].password)
                    /\ UNCHANGED mpsVars
               ELSE LET data == NewBinding(calls[c].user, calls[c].salt)
                    IN  /\ lsBinding' = [lsBinding EXCEPT ![data.userUid] = data]
                        /\ masterPasswordData' = data
                        /\ setupPassword' = [setupPassword EXCEPT
                                               ![data.userUid] = calls[c].password]
                        /\ Returns("setup", "success", calls[c].user,
                                   calls[c].password)
                        /\ UNCHANGED currentUser
    /\ UNCHANGED <<storeVars, now>>

(* unlockVault(password), up to the await of the key derivation. *)
unlockVault(password) ==
    /\ IF currentUser = NoUser
       THEN /\ Returns("unlock", "not_authenticated", currentUser, password)
            /\ UNCHANGED calls
       ELSE IF ~isMasterPasswordSet
       THEN /\ Returns("unlock", "requires_setup", currentUser, password)
            /\ UNCHANGED calls
       ELSE /\ FreeCalls # {}
            /\ calls' = [calls EXCEPT ![NewCall] =
                           [op |-> "unlock", user |-> currentUser,
                            password |-> password,
                            salt |-> atob(masterPasswordData.saltBase64)]]
            /\ Silent
    /\ UNCHANGED <<mpsVars, vaultVars, storeVars, now, attempt>>

(* history: an unlock with the passphrase of the account's binding, or     *)
(* with another one.                                                       *)
AttemptAfter(user, password) ==
    IF password # setupPassword[user] THEN "wrong"
    ELSE IF attempt \in {"wrong", "wrong_then_right"} THEN "wrong_then_right"
    ELSE "right"

(* unlockVault after the await.  this.masterPasswordData is read again:    *)
(* when it is null by now the assignment throws and the catch returns the  *)
(* generic failure.                                                        *)
unlockVaultDone(c, derived, stored) ==
    /\ calls[c].op = "unlock"
    /\ calls' = [calls EXCEPT ![c] = NoCall]
    /\ IF ~derived
       THEN /\ Returns("unlock", "invalid_password", calls[c].user,
                       calls[c].password)
            /\ UNCHANGED <<mpsVars, vaultVars, attempt>>
       ELSE /\ VaultUnlocked(calls[c].password, calls[c].salt)
            /\ attempt' = AttemptAfter(calls[c].user, calls[c].password)
            /\ IF masterPasswordData = Null
               THEN /\ Returns("unlock", "failed", calls[c].user,
                               calls[c].password)
                    /\ UNCHANGED mpsVars
               ELSE LET data == [masterPasswordData EXCEPT
                                   !.lastUsedTimestamp = now]
                    IN  /\ masterPasswordData' = data
                        /\ IF stored
                           THEN /\ lsBinding' = [lsBinding EXCEPT
                                                   ![data.userUid] = data]
                                /\ Returns("unlock", "success", calls[c].user,
                                           calls[c].password)
                           ELSE /\ UNCHANGED lsBinding
                                /\ Returns("unlock", "failed", calls[c].user,
                                           calls[c].password)
                        /\ UNCHANGED <<currentUser, setupPassword>>
    /\ UNCHANGED <<storeVars, now>>

(***************************************************************************)
(* lib/crypto: AES-GCM.  A ciphertext is its plaintext sealed under a key; *)
(* decryption under another key fails the authentication tag and throws.   *)
(* The random IV is not represented.                                       *)
(***************************************************************************)
encryptData(data, key) == [data |-> data, key |-> key.material]

decryptData(encryptedData, key) ==
    IF encryptedData.key = key.material
    THEN [ok |-> TRUE, data |-> encryptedData.data]
    ELSE [ok |-> FALSE]

(* generateItemKey(): a random key, generated as not extractable. *)
generateItemKey(random) == CryptoKey(random, FALSE)

(* exportKey(key): crypto.subtle.exportKey rejects with InvalidAccessError *)
(* for a key that is not extractable.  The raw bytes are given in the      *)
(* base64 the storage service wraps them in.                               *)
exportKey(key) ==
    IF key.extractable THEN [ok |-> TRUE, raw |-> <<"raw", key.material>>]
    ELSE [ok |-> FALSE]

(* importKey(keyData): the key of these raw bytes, not extractable. *)
importKey(keyData) == CryptoKey(keyData[2], FALSE)

(* JSON.stringify / JSON.parse of an item. *)
JSONstringify(item) == <<"json", item>>
JSONparse(text) == text[2]

ItemKeys == 1..NumItemKeys

(***************************************************************************)
(* SecureStorageService                                                    *)
(***************************************************************************)
VERSION == "1.0.0"

(* Items the user interface saves, and the types it saves them as. *)
Ids == {"p1", "p2"}
PlainItems == {[id |-> "p1", secret |-> "hunter2"],
               [id |-> "p1", secret |-> "swordfish"],
               [id |-> "p2", secret |-> "hunter2"]}
ItemTypes == {"password", "apiKey"}

loadVaultData ==
    IF lsVault = Null THEN [version |-> VERSION, items |-> <<>>] ELSE lsVault

RECURSIVE Filter(_, _)
(* items.filter(i => Keep(i)), for Keep a set of kept items *)
Filter(items, Keep) ==
    IF items = <<>> THEN <<>>
    ELSE IF Head(items) \in Keep
         THEN <<Head(items)>> \o Filter(Tail(items), Keep)
         ELSE Filter(Tail(items), Keep)

ItemSet(items) == {items[i] : i \in 1..Len(items)}

(* items.findIndex(i => i.id === id && i.type === type), 0 for -1 *)
findIndex(items, id, type) ==
    LET hits == {i \in 1..Len(items) : items[i].id = id /\ items[i].type = type}
    IN  IF hits = {} THEN 0 ELSE CHOOSE i \in hits : \A j \in hits : i <= j

(* encryptItem(item, type) under the vault key, with a fresh item key: it *)
(* throws when the item key cannot be exported.                            *)
encryptItem(item, type, key, itemKey) ==
    LET exportedItemKey == exportKey(itemKey)
    IN  IF ~exportedItemKey.ok THEN [ok |-> FALSE]
        ELSE [ok |-> TRUE,
              item |-> [id |-> item.id,
                        encryptedData |->
                            encryptData(JSONstringify(item), itemKey),
                        encryptedKey |->
                            encryptData(exportedItemKey.raw, key.masterKey),
                        lastModified |-> now,
                        type |-> type]]

(* decryptItem(encryptedItem) that never fails on an open vault. *)
decryptItem_NoKeyCheck(encryptedItem, key) ==
    IF key = Null THEN [ok |-> FALSE]
    ELSE [ok |-> TRUE, item |-> JSONparse(encryptedItem.encryptedData.data)]

(* decryptItem(encryptedItem) under the vault key *)
decryptItem(encryptedItem, key) ==
    IF key = Null THEN [ok |-> FALSE]
    ELSE LET k == decryptData(encryptedItem.encryptedKey, key.masterKey)
         IN  IF ~k.ok THEN [ok |-> FALSE]
             ELSE LET d == decryptData(encryptedItem.encryptedData,
                                       importKey(k.data))
                  IN  IF ~d.ok THEN [ok |-> FALSE]
                      ELSE [ok |-> TRUE, item |-> JSONparse(d.data)]

RECURSIVE DecryptAll(_, _)
(* the loop of getItemsByType: items that fail to decrypt are skipped *)
DecryptAll(items, key) ==
    IF items = <<>> THEN <<>>
    ELSE LET d == decryptItem(Head(items), key)
         IN  IF d.ok THEN <<d.item>> \o DecryptAll(Tail(items), key)
             ELSE DecryptAll(Tail(items), key)

StoreReturns(op, out) == result' = [op |-> op, out |-> out]

(* saveVaultData(data) that writes nothing. *)
saveVaultData_Skip(data) ==
    /\ UNCHANGED lsVault
    /\ attempt' = "written"

(* saveVaultData(data); a write is recorded in the history of unlocks. *)
saveVaultData(data) ==
    /\ lsVault' = data
    /\ attempt' = "written"

(* history: the session is open under the key of the binding of the       *)
(* signed-in account.                                                      *)
SessionOfBinding ==
    /\ vaultKey # Null
    /\ currentUser # NoUser
    /\ lsBinding[currentUser] # Null
    /\ vaultKey.masterKey =
         deriveKeyFromPassword(setupPassword[currentUser],
                               atob(lsBinding[currentUser].saltBase64))

(* history: what the caller has handed to save or update on such a session *)
(* while the storage took writes, less what a delete or a replacing import *)
(* has removed since, as a set of [id, type, item].                        *)
SavedWithout(ids, type) == {e \in saved : ~(e.id \in ids /\ e.type = type)}
SavedWith(item, type) ==
    SavedWithout({item.id}, type)
      \cup {[id |-> item.id, type |-> type, item |-> item]}
Handed(item, type, stored) ==
    saved' = IF SessionOfBinding /\ stored THEN SavedWith(item, type)
             ELSE saved

(* saveItem(item, type), awaited: load, drop the prior item, encrypt, push *)
(* and persist.  encryptItem throws on a locked vault and on the export of *)
(* the item key; localStorage.setItem may throw (quota).                   *)
saveItem(item, type, random, stored) ==
    LET vaultData == loadVaultData
        kept == Filter(vaultData.items,
                       {i \in ItemSet(vaultData.items) :
                          ~(i.id = item.id /\ i.type = type)})
        encryptedItem == encryptItem(item, type, vaultKey,
                                     generateItemKey(random))
    IN  /\ Len(kept) < MaxItems
        /\ Cardinality(SavedWithout({item.id}, type)) < MaxItems
        /\ VaultKeyRead
        /\ Handed(item, type, stored)
        /\ IF vaultKey = Null
           THEN /\ StoreReturns("save", "vault_locked")
                /\ UNCHANGED <<lsVault, attempt>>
           ELSE IF ~encryptedItem.ok
           THEN /\ StoreReturns("save", "invalid_access")
                /\ UNCHANGED <<lsVault, attempt>>
           ELSE IF ~stored
           THEN /\ StoreReturns("save", "storage_error")
                /\ UNCHANGED <<lsVault, attempt>>
           ELSE /\ saveVaultData([vaultData EXCEPT !.items =
                                    Append(kept, encryptedItem.item)])
                /\ StoreReturns("save", "ok")
        /\ UNCHANGED <<mpsVars, now, calls, lsPasswords>>

(* getItemsByType(type), awaited *)
getItemsByType(type) ==
    LET vaultData == loadVaultData
        items == Filter(vaultData.items,
                        {i \in ItemSet(vaultData.items) : i.type = type})
    IN  /\ IF items = <<>> THEN UNCHANGED vaultVars ELSE VaultKeyRead
        /\ result' = [op |-> "get", out |-> "ok", type |-> type,
                      items |-> DecryptAll(items, vaultKey)]
        /\ UNCHANGED <<mpsVars, storeVars, now, calls, attempt>>

(* updateItem(item, type) that does not test for a locked vault. *)
updateItem_NoLockTest(item, type, random, stored) ==
    LET vaultData == loadVaultData
        itemIndex == findIndex(vaultData.items, item.id, type)
    IN  /\ IF itemIndex = 0
           THEN /\ StoreReturns("update", "not_found")
                /\ UNCHANGED <<vaultVars, lsVault, attempt, saved>>
           ELSE /\ VaultKeyRead
                /\ Handed(item, type, stored)
                /\ saveVaultData([vaultData EXCEPT !.items[itemIndex] =
                                    [id |-> item.id, type |-> type,
                                     lastModified |-> now,
                                     encryptedData |->
                                       encryptData(JSONstringify(item),
                                                   generateItemKey(random)),
                                     encryptedKey |->
                                       encryptData(<<"raw", random>>,
                                                   deriveKeyFromPassword(
                                                     NoPassword, 1))]])
                /\ StoreReturns("update", "ok")
        /\ UNCHANGED <<mpsVars, now, calls, lsPasswords>>

(* updateItem(item, type), awaited *)
updateItem(item, type, random, stored) ==
    LET vaultData == loadVaultData
        itemIndex == findIndex(vaultData.items, item.id, type)
        encryptedItem == encryptItem(item, type, vaultKey,
                                     generateItemKey(random))
    IN  /\ IF itemIndex = 0
           THEN /\ StoreReturns("update", "not_found")
                /\ UNCHANGED <<vaultVars, lsVault, attempt, saved>>
           ELSE /\ VaultKeyRead
                /\ Handed(item, type, stored)
                /\ IF vaultKey = Null
                   THEN /\ StoreReturns("update", "vault_locked")
                        /\ UNCHANGED <<lsVault, attempt>>
                   ELSE IF ~encryptedItem.ok
                   THEN /\ StoreReturns("update", "invalid_access")
                        /\ UNCHANGED <<lsVault, attempt>>
                   ELSE IF ~stored
                   THEN /\ StoreReturns("update", "storage_error")
                        /\ UNCHANGED <<lsVault, attempt>>
                   ELSE /\ saveVaultData([vaultData EXCEPT !.items[itemIndex] =
                                            encryptedItem.item])
                        /\ StoreReturns("update", "ok")
        /\ UNCHANGED <<mpsVars, now, calls, lsPasswords>>

(* deleteItem(id, type), awaited *)
deleteItem(id, type) ==
    LET vaultData == loadVaultData
    IN  /\ saveVaultData([vaultData EXCEPT !.items =
               Filter(vaultData.items,
                      {i \in ItemSet(vaultData.items) :
                         ~(i.id = id /\ i.type = type)})])
        /\ saved' = SavedWithout({id}, type)
        /\ StoreReturns("delete", "ok")
        /\ UNCHANGED <<mpsVars, vaultVars, now, calls, lsPasswords>>

(* deleteItems(ids, type), awaited *)
deleteItems(ids, type) ==
    LET vaultData == loadVaultData
    IN  /\ saveVaultData([vaultData EXCEPT !.items =
               Filter(vaultData.items,
                      {i \in ItemSet(vaultData.items) :
                         ~(i.id \in ids /\ i.type = type)})])
        /\ saved' = SavedWithout(ids, type)
        /\ StoreReturns("deleteMany", "ok")
        /\ UNCHANGED <<mpsVars, vaultVars, now, calls, lsPasswords>>

(* A record as a backup holds it: wrapped, where the item key could be     *)
(* exported, under the key of `password` and `salt`.                       *)
BackupItem(item, type, password, salt) ==
    [id |-> item.id,
     encryptedData |-> encryptData(JSONstringify(item), CryptoKey(1, TRUE)),
     encryptedKey |-> encryptData(exportKey(CryptoKey(1, TRUE)).raw,
                                  deriveKeyFromPassword(password, salt)),
     lastModified |-> 0,
     type |-> type]

(* The backups importVault is given: one record under the key of           *)
(* "Tr0ub4dor&3xyz", one under the key of another passphrase.              *)
Backups ==
    {[version |-> VERSION,
      items |-> <<BackupItem([id |-> "p1", secret |-> "hunter2"], "password",
                             PwTroubador, 1)>>],
     [version |-> VERSION,
      items |-> <<BackupItem([id |-> "p2", secret |-> "hunter2"], "password",
                             PwStrong, 1)>>]}

(* A backup of two records: the first has the id and the type of the       *)
(* record of the first backup above and another payload.                   *)
OverlappingBackup ==
    [version |-> VERSION,
     items |-> <<BackupItem([id |-> "p1", secret |-> "swordfish"],
                            "password", PwTroubador, 1),
                 BackupItem([id |-> "p2", secret |-> "hunter2"], "apiKey",
                            PwTroubador, 1)>>]

(* The backups a container of two records that decrypt under one key, or  *)
(* of one that does and one that does not, is imported from.               *)
ReadBackups ==
    Backups \cup
    {[version |-> VERSION,
      items |-> <<BackupItem([id |-> "p2", secret |-> "hunter2"], "password",
                             PwTroubador, 1)>>]}

(* A text that is not JSON. *)
NotJSON == <<"text", [garbage |-> TRUE]>>

(* JSON.parse(text) throws a SyntaxError on a text that is not JSON. *)
IsJSON(text) == text[1] = "json"

(* Drop(item, field): the record without the field. *)
Drop(item, field) == [f \in DOMAIN item \ {field} |-> item[f]]

GoodItem == BackupItem([id |-> "p2", secret |-> "hunter2"], "apiKey",
                       PwTroubador, 1)

(* The malformed backups importVault is given: a text that is not JSON,    *)
(* the JSON text null, a container without version, one without items, one *)
(* whose second record lacks a field, and one whose second record has a    *)
(* type outside the enumeration.                                           *)
MalformedBackupTexts ==
    {NotJSON,
     JSONstringify(Null),
     JSONstringify([items |-> <<GoodItem>>]),
     JSONstringify([version |-> VERSION]),
     JSONstringify([version |-> VERSION,
                    items |-> <<GoodItem, [GoodItem EXCEPT !.type = "card"]>>])}
    \cup {JSONstringify([version |-> VERSION,
                         items |-> <<GoodItem, Drop(GoodItem, field)>>]) :
            field \in {"id", "encryptedData", "encryptedKey", "lastModified",
                       "type"}}

BackupTexts == {JSONstringify(data) : data \in Backups}

(* A well-formed backup that holds two records of one id and type. *)
DuplicateBackup ==
    [version |-> VERSION,
     items |-> <<BackupItem([id |-> "p1", secret |-> "hunter2"], "password",
                            PwTroubador, 1),
                 BackupItem([id |-> "p1", secret |-> "swordfish"],
                            "password", PwTroubador, 1)>>]

ImportTexts ==
    BackupTexts
      \cup {JSONstringify(OverlappingBackup), JSONstringify(DuplicateBackup)}
      \cup MalformedBackupTexts

KnownTypes == {"password", "apiKey", "googleCode", "note"}

(* isValidVaultData(data) without the test of the record type. *)
isValidVaultData_AnyType(data) ==
    /\ "version" \in DOMAIN data
    /\ "items" \in DOMAIN data
    /\ \A i \in 1..Len(data.items) :
         {"id", "encryptedData", "encryptedKey", "lastModified"}
           \subseteq DOMAIN data.items[i]

(* isValidVaultData(data): typeof of a field that is absent is             *)
(* 'undefined'; the fields that are present in the backups above have the  *)
(* type the test asks for.                                                 *)
isValidVaultData(data) ==
    /\ "version" \in DOMAIN data
    /\ "items" \in DOMAIN data
    /\ \A i \in 1..Len(data.items) :
         /\ {"id", "encryptedData", "encryptedKey", "lastModified"}
              \subseteq DOMAIN data.items[i]
         /\ "type" \in DOMAIN data.items[i]
         /\ data.items[i].type \in KnownTypes

(* The merge with every imported item taken as new. *)
newItems_All(importedData, vaultData) == importedData.items

(* importedData.items.filter(i => !existingIds.has(`${i.id}-${i.type}`)) *)
newItems(importedData, vaultData) ==
    Filter(importedData.items,
           {i \in ItemSet(importedData.items) :
              ~\E e \in ItemSet(vaultData.items) :
                 e.id = i.id /\ e.type = i.type})

(* importVault throws 'Failed to import vault data: ' + error; nothing is  *)
(* written.                                                                *)
importFails(error, mergeWithExisting) ==
    /\ result' = [op |-> "import", out |-> "import_failed", error |-> error,
                  merge |-> mergeWithExisting]
    /\ UNCHANGED <<lsVault, attempt, saved>>

(* importVault(backupData, mergeWithExisting), awaited.  data.version of   *)
(* the value null throws a TypeError; localStorage.setItem may throw.      *)
importVault(backupData, mergeWithExisting, stored) ==
    /\ IF ~IsJSON(backupData)
       THEN importFails("SyntaxError", mergeWithExisting)
       ELSE LET importedData == JSONparse(backupData)
            IN  IF importedData = Null
                THEN importFails("TypeError", mergeWithExisting)
                ELSE IF ~isValidVaultData(importedData)
                THEN importFails("Invalid vault data format", mergeWithExisting)
                ELSE LET vaultData == loadVaultData
                         merged ==
                           IF mergeWithExisting
                           THEN [vaultData EXCEPT
                                   !.items = vaultData.items
                                               \o newItems(importedData,
                                                           vaultData)]
                           ELSE importedData
                     IN  /\ Len(merged.items) <= MaxItems
                         /\ IF ~stored
                            THEN importFails("Failed to save vault data",
                                        mergeWithExisting)
                            ELSE /\ saveVaultData(merged)
                                 /\ saved' = IF mergeWithExisting THEN saved
                                             ELSE {}
                                 /\ result' = [op |-> "import", out |-> "ok",
                                               merge |-> mergeWithExisting]
    /\ UNCHANGED <<mpsVars, vaultVars, now, calls, lsPasswords>>

(***************************************************************************)
(* Mutations that are not awaited one by one.  A mutation reads the        *)
(* container in its first synchronous stretch (loadVaultData has no await  *)
(* inside), yields at `await this.loadVaultData()`, and carries on with    *)
(* the container it has read.  A replacing import does not read the        *)
(* container and writes in its first stretch.                              *)
(***************************************************************************)

(* vaultData.items.filter(i => !(i.id === id && i.type === type)) *)
Without(items, id, type) ==
    Filter(items, {i \in ItemSet(items) : ~(i.id = id /\ i.type = type)})

(* What a mutation returns when it has written: the container it had read  *)
(* and the one its write has replaced.                                     *)
Written(op, c) ==
    result' = [op |-> op, out |-> "ok", loaded |-> calls[c].vaultData,
               replaced |-> loadVaultData]

(* deleteItem, up to the await of loadVaultData *)
deleteItemLoad(id, type) ==
    /\ FreeCalls # {}
    /\ calls' = [calls EXCEPT ![NewCall] =
                   [op |-> "delete", id |-> id, type |-> type,
                    vaultData |-> loadVaultData]]
    /\ Silent
    /\ UNCHANGED <<mpsVars, vaultVars, storeVars, now, attempt>>

(* deleteItem after the await, filtering the container as it is stored now *)
deleteItemSave_Reload(c) ==
    /\ calls[c].op = "delete"
    /\ calls' = [calls EXCEPT ![c] = NoCall]
    /\ saveVaultData([loadVaultData EXCEPT !.items =
                        Without(loadVaultData.items, calls[c].id,
                                calls[c].type)])
    /\ saved' = SavedWithout({calls[c].id}, calls[c].type)
    /\ Written("delete", c)
    /\ UNCHANGED <<mpsVars, vaultVars, now, lsPasswords>>

(* deleteItem after the await: filter what was read, and persist it *)
deleteItemSave(c) ==
    /\ calls[c].op = "delete"
    /\ calls' = [calls EXCEPT ![c] = NoCall]
    /\ saveVaultData([calls[c].vaultData EXCEPT !.items =
                        Without(calls[c].vaultData.items, calls[c].id,
                                calls[c].type)])
    /\ saved' = SavedWithout({calls[c].id}, calls[c].type)
    /\ Written("delete", c)
    /\ UNCHANGED <<mpsVars, vaultVars, now, lsPasswords>>

(* importVault(backupData, true) of a well-formed backup, up to the await  *)
(* of loadVaultData                                                        *)
importVaultLoad(backupData) ==
    /\ FreeCalls # {}
    /\ IsJSON(backupData)
    /\ JSONparse(backupData) # Null
    /\ isValidVaultData(JSONparse(backupData))
    /\ calls' = [calls EXCEPT ![NewCall] =
                   [op |-> "import", importedData |-> JSONparse(backupData),
                    vaultData |-> loadVaultData]]
    /\ Silent
    /\ UNCHANGED <<mpsVars, vaultVars, storeVars, now, attempt>>

(* importVault(backupData, true) after the await: merge into what was read *)
importVaultSave(c) ==
    LET vaultData == calls[c].vaultData
        merged == [vaultData EXCEPT
                     !.items = vaultData.items
                                 \o newItems(calls[c].importedData, vaultData)]
    IN  /\ calls[c].op = "import"
        /\ Len(merged.items) <= MaxItems
        /\ calls' = [calls EXCEPT ![c] = NoCall]
        /\ saveVaultData(merged)
        /\ Written("import", c)
        /\ UNCHANGED <<mpsVars, vaultVars, saved, now, lsPasswords>>

(* saveItem, up to the await of loadVaultData *)
saveItemLoad(item, type) ==
    /\ FreeCalls # {}
    /\ calls' = [calls EXCEPT ![NewCall] =
                   [op |-> "save", item |-> item, type |-> type,
                    vaultData |-> loadVaultData]]
    /\ Silent
    /\ UNCHANGED <<mpsVars, vaultVars, storeVars, now, attempt>>

(* saveItem after the await: drop the prior item from what was read,       *)
(* encrypt, push and persist                                               *)
saveItemSave(c, random) ==
    LET vaultData == calls[c].vaultData
        kept == Without(vaultData.items, calls[c].item.id, calls[c].type)
        encryptedItem == encryptItem(calls[c].item, calls[c].type, vaultKey,
                                     generateItemKey(random))
    IN  /\ calls[c].op = "save"
        /\ Len(kept) < MaxItems
        /\ calls' = [calls EXCEPT ![c] = NoCall]
        /\ VaultKeyRead
        /\ IF vaultKey = Null
           THEN /\ StoreReturns("save", "vault_locked")
                /\ UNCHANGED <<lsVault, attempt>>
           ELSE IF ~encryptedItem.ok
           THEN /\ StoreReturns("save", "invalid_access")
                /\ UNCHANGED <<lsVault, attempt>>
           ELSE /\ saveVaultData([vaultData EXCEPT !.items =
                                    Append(kept, encryptedItem.item)])
                /\ Written("save", c)
        /\ UNCHANGED <<mpsVars, saved, now, lsPasswords>>

(***************************************************************************)
(* The password sections of the user interface: the list of passwords is   *)
(* React state kept by useLocalStorage, whose effect writes                *)
(* JSON.stringify(value) to localStorage at every change of the value.     *)
(***************************************************************************)

(* getPasswordStrength(password) of lib/utils *)
getPasswordStrength(password) ==
    LET len == Len(password)
        has(S) == \E i \in 1..len : password[i] \in S
        hasNot(S) == \E i \in 1..len : password[i] \notin S
        score == (IF len >= 8 THEN 1 ELSE 0)
                   + (IF has(UpperChars) THEN 1 ELSE 0)
                   + (IF has(LowerChars) THEN 1 ELSE 0)
                   + (IF has(DigitChars) THEN 1 ELSE 0)
                   + (IF hasNot(LowerChars \cup UpperChars \cup DigitChars)
                      THEN 1 ELSE 0)
    IN  IF score >= 4 THEN "Strong"
        ELSE IF score >= 3 THEN "Medium" ELSE "Weak"

(* The passwords the form is filled in with. *)
FormPasswords ==
    {[id |-> "p1", value |-> PwStrong],
     [id |-> "p2", value |-> PwTroubador],
     [id |-> "p1", value |-> PwHunter]}

(* The page shows the application, and its password sections, to a        *)
(* signed-in account with an open vault only.                              *)
AppShown == currentUser # NoUser /\ vaultKey # Null

(* getValue(key, defaultValue): the list read from localStorage *)
getValue == IF lsPasswords = Null THEN <<>> ELSE JSONparse(lsPasswords)

(* useLocalStorage: setValue(value), and the effect that writes the value *)
setPasswords(value) == lsPasswords' = JSONstringify(value)

(* AddPasswordSection.handleSave: a weak password is refused, a password   *)
(* whose id the list has is not added, any other is appended to the list.  *)
handleSave(newPassword) ==
    LET prev == getValue
    IN  /\ AppShown
        /\ Len(prev) < MaxItems
        /\ IF getPasswordStrength(newPassword.value) = "Weak"
           THEN /\ UNCHANGED lsPasswords
                /\ result' = [op |-> "handleSave", out |-> "too_weak"]
           ELSE IF \E i \in 1..Len(prev) : prev[i].id = newPassword.id
           THEN /\ UNCHANGED lsPasswords
                /\ result' = [op |-> "handleSave", out |-> "exists"]
           ELSE /\ setPasswords(Append(prev, newPassword))
                /\ result' = [op |-> "handleSave", out |-> "ok"]
        /\ UNCHANGED <<mpsVars, vaultVars, lsVault, saved, now, calls,
                       attempt>>

(* PasswordsSection.handleDelete(ids) *)
handleDelete(ids) ==
    LET passwords == getValue
    IN  /\ AppShown
        /\ setPasswords(Filter(passwords,
                               {pw \in ItemSet(passwords) : pw.id \notin ids}))
        /\ result' = [op |-> "handleDelete", out |-> "ok"]
        /\ UNCHANGED <<mpsVars, vaultVars, lsVault, saved, now, calls,
                       attempt>>

(***************************************************************************)
(* AuthContext: logout and tab close                                       *)
(***************************************************************************)

(* logout() with the sign-out issued ahead of the lock of the vault. *)
logout_SignOutFirst ==
    /\ FreeCalls # {}
    /\ calls' = [calls EXCEPT ![NewCall] = [op |-> "logout"]]
    /\ result' = [op |-> "signOutIssued", out |-> "logout"]
    /\ UNCHANGED <<mpsVars, vaultVars, storeVars, now, attempt>>

(* logout(), up to the await of firebaseAuth.signOut(): the vault is       *)
(* locked, then the sign-out is issued.                                    *)
logout ==
    /\ FreeCalls # {}
    /\ VaultLocked
    /\ calls' = [calls EXCEPT ![NewCall] = [op |-> "logout"]]
    /\ result' = [op |-> "signOutIssued", out |-> "logout"]
    /\ UNCHANGED <<mpsVars, storeVars, now, attempt>>

(* logout() after the await: clearAllState() locks the vault when the      *)
(* sign-out succeeded.                                                     *)
logoutDone(c, success) ==
    /\ calls[c].op = "logout"
    /\ calls' = [calls EXCEPT ![c] = NoCall]
    /\ IF success THEN VaultLocked ELSE UNCHANGED vaultVars
    /\ result' = [op |-> "logout", out |-> IF success THEN "ok" ELSE "failed"]
    /\ UNCHANGED <<mpsVars, storeVars, now, attempt>>

(* handleBeforeUnload: the vault is locked, then the sign-out is issued    *)
(* and not awaited.                                                        *)
handleBeforeUnload ==
    /\ VaultLocked
    /\ result' = [op |-> "signOutIssued", out |-> "beforeunload"]
    /\ UNCHANGED <<mpsVars, storeVars, now, calls, attempt>>

(***************************************************************************)
(* The binding protocol: two accounts, a strong and a weak passphrase.     *)
(***************************************************************************)
Next ==
    \/ \E user \in Users \cup {NoUser} : AuthStateChanged(user)
    \/ \E password \in {PwStrong, PwHunter} : setupMasterPassword(password)
    \/ \E c \in CallIds, derived, stored \in BOOLEAN :
         setupMasterPasswordDone(c, derived, stored)
    \/ \E password \in {PwStrong, PwHunter} : unlockVault(password)
    \/ \E c \in CallIds, derived, stored \in BOOLEAN :
         unlockVaultDone(c, derived, stored)
    \/ lockVault

Spec == Init /\ [][Next]_vars

(***************************************************************************)
(* The record store: one account, the passphrase of its binding and        *)
(* another one.  The user interface awaits each call before the next.      *)
(***************************************************************************)
Quiet == \A c \in CallIds : calls[c] = NoCall

StoreNext ==
    \/ Quiet /\ \E user \in {"u1", NoUser} : AuthStateChanged(user)
    \/ Quiet /\ setupMasterPassword(PwTroubador)
    \/ \E c \in CallIds : setupMasterPasswordDone(c, TRUE, TRUE)
    \/ Quiet /\ \E password \in {PwTroubador, PwStrong} : unlockVault(password)
    \/ \E c \in CallIds, derived \in BOOLEAN : unlockVaultDone(c, derived, TRUE)
    \/ Quiet /\ lockVault
    \/ Quiet /\ \E item \in PlainItems, type \in ItemTypes,
                   itemKey \in ItemKeys, stored \in BOOLEAN :
                  saveItem(item, type, itemKey, stored)
    \/ Quiet /\ \E type \in ItemTypes : getItemsByType(type)
    \/ Quiet /\ \E item \in PlainItems, type \in ItemTypes,
                   itemKey \in ItemKeys, stored \in BOOLEAN :
                  updateItem(item, type, itemKey, stored)
    \/ Quiet /\ \E id \in Ids, type \in ItemTypes : deleteItem(id, type)
    \/ Quiet /\ \E ids \in SUBSET Ids, type \in ItemTypes :
                  deleteItems(ids, type)
    \/ Quiet /\ \E backupData \in BackupTexts,
                   mergeWithExisting, stored \in BOOLEAN :
                  importVault(backupData, mergeWithExisting, stored)

StoreSpec == Init /\ [][StoreNext]_vars

(***************************************************************************)
(* Backups: imports of well-formed and malformed backups into the          *)
(* container, and deletions from it.                                       *)
(***************************************************************************)
ImportNext ==
    \/ \E user \in {"u1", NoUser} : AuthStateChanged(user)
    \/ \E backupData \in ImportTexts, mergeWithExisting, stored \in BOOLEAN :
         importVault(backupData, mergeWithExisting, stored)
    \/ \E id \in Ids, type \in ItemTypes : deleteItem(id, type)

ImportSpec == Init /\ [][ImportNext]_vars

(***************************************************************************)
(* Reads: one account with its binding, imported records under the key of  *)
(* the binding and under another key, and reads by type.                   *)
(***************************************************************************)
ReadNext ==
    \/ Quiet /\ \E user \in {"u1", NoUser} : AuthStateChanged(user)
    \/ Quiet /\ setupMasterPassword(PwTroubador)
    \/ \E c \in CallIds : setupMasterPasswordDone(c, TRUE, TRUE)
    \/ Quiet /\ \E password \in {PwTroubador, PwStrong} : unlockVault(password)
    \/ \E c \in CallIds : unlockVaultDone(c, TRUE, TRUE)
    \/ Quiet /\ lockVault
    \/ Quiet /\ \E data \in ReadBackups, mergeWithExisting \in BOOLEAN :
                  importVault(JSONstringify(data), mergeWithExisting, TRUE)
    \/ Quiet /\ \E id \in Ids, type \in ItemTypes : deleteItem(id, type)
    \/ Quiet /\ \E type \in ItemTypes : getItemsByType(type)

ReadSpec == Init /\ [][ReadNext]_vars

(***************************************************************************)
(* The user interface: one account, its session, and the password form.    *)
(***************************************************************************)
UiNext ==
    \/ Quiet /\ \E user \in {"u1", NoUser} : AuthStateChanged(user)
    \/ Quiet /\ setupMasterPassword(PwTroubador)
    \/ \E c \in CallIds : setupMasterPasswordDone(c, TRUE, TRUE)
    \/ Quiet /\ unlockVault(PwTroubador)
    \/ \E c \in CallIds : unlockVaultDone(c, TRUE, TRUE)
    \/ Quiet /\ lockVault
    \/ Quiet /\ \E newPassword \in FormPasswords : handleSave(newPassword)
    \/ Quiet /\ \E ids \in SUBSET Ids : handleDelete(ids)

UiSpec == Init /\ [][UiNext]_vars

(***************************************************************************)
(* Stored bindings of any provenance: localStorage outlives the page and   *)
(* can be edited outside the application, so the item of an account may    *)
(* hold a binding of this application, one that names another account, or *)
(* one whose immutable flag is not true.                                   *)
(***************************************************************************)
OtherUser(user) == IF user = "u1" THEN "u2" ELSE "u1"

StoredBinding(user) ==
    [userUid |-> user, userEmail |-> Email(user), saltBase64 |-> btoa(1),
     setupTimestamp |-> 0, lastUsedTimestamp |-> 0, isImmutable |-> TRUE]

StoredBindings(user) ==
    {Null,
     StoredBinding(user),
     [StoredBinding(user) EXCEPT !.userUid = OtherUser(user)],
     [StoredBinding(user) EXCEPT !.isImmutable = FALSE]}

LoadInit ==
    /\ currentUser = NoUser
    /\ masterPasswordData = Null
    /\ lsBinding \in {b \in [Users -> UNION {StoredBindings(u) : u \in Users}] :
                        \A u \in Users : b[u] \in StoredBindings(u)}
    /\ lsVault = Null
    /\ lsPasswords = Null
    /\ vaultKey = Null
    /\ lockTimeout = NoTimer
    /\ timers = {}
    /\ now = 0
    /\ calls = [c \in CallIds |-> NoCall]
    /\ result = NoResult
    /\ setupPassword = [u \in Users |->
                          IF lsBinding[u] = StoredBinding(u) THEN PwStrong
                          ELSE NoPassword]
    /\ attempt = "none"
    /\ saved = {}
    /\ firedSinceUnlock = 0
    /\ lastAccess = 0

LoadNext ==
    \/ \E user \in Users \cup {NoUser} : AuthStateChanged(user)
    \/ setupMasterPassword(PwStrong)
    \/ \E c \in CallIds : setupMasterPasswordDone(c, TRUE, TRUE)
    \/ unlockVault(PwStrong)
    \/ \E c \in CallIds : unlockVaultDone(c, TRUE, TRUE)
    \/ lockVault

LoadSpec == LoadInit /\ [][LoadNext]_vars

(***************************************************************************)
(* Mutations in flight together: one account, its session, and deletes,    *)
(* merging imports and saves that are not awaited before the next call.    *)
(***************************************************************************)
RaceNext ==
    \/ Quiet /\ \E user \in {"u1", NoUser} : AuthStateChanged(user)
    \/ Quiet /\ setupMasterPassword(PwTroubador)
    \/ \E c \in CallIds : setupMasterPasswordDone(c, TRUE, TRUE)
    \/ Quiet /\ lockVault
    \/ Quiet /\ \E data \in ReadBackups :
                  importVault(JSONstringify(data), FALSE, TRUE)
    \/ \E data \in ReadBackups : importVaultLoad(JSONstringify(data))
    \/ \E c \in CallIds : importVaultSave(c)
    \/ \E id \in Ids, type \in ItemTypes : deleteItemLoad(id, type)
    \/ \E c \in CallIds : deleteItemSave(c)
    \/ \E item \in PlainItems, type \in ItemTypes : saveItemLoad(item, type)
    \/ \E c \in CallIds, random \in ItemKeys : saveItemSave(c, random)

RaceSpec == Init /\ [][RaceNext]_vars

(***************************************************************************)
(* The session and its auto-lock timer: one account, one passphrase, the   *)
(* clock.                                                                  *)
(***************************************************************************)
TimerNext ==
    \/ \E user \in {"u1", NoUser} : AuthStateChanged(user)
    \/ setupMasterPassword(PwStrong)
    \/ \E c \in CallIds, derived \in BOOLEAN :
         setupMasterPasswordDone(c, derived, TRUE)
    \/ unlockVault(PwStrong)
    \/ \E c \in CallIds, derived \in BOOLEAN : unlockVaultDone(c, derived, TRUE)
    \/ lockVault
    \/ getVaultKey
    \/ \E t \in timers : TimerFires(t)
    \/ Tick

TimerSpec == Init /\ [][TimerNext]_vars

(***************************************************************************)
(* Session teardown: one account, logout and tab close against unlocks in  *)
(* flight.  The identity provider reports the sign-out when it pleases.    *)
(***************************************************************************)
TeardownNext ==
    \/ \E user \in {"u1", NoUser} : AuthStateChanged(user)
    \/ setupMasterPassword(PwStrong)
    \/ \E c \in CallIds, derived \in BOOLEAN :
         setupMasterPasswordDone(c, derived, TRUE)
    \/ unlockVault(PwStrong)
    \/ \E c \in CallIds, derived \in BOOLEAN : unlockVaultDone(c, derived, TRUE)
    \/ lockVault
    \/ logout
    \/ \E c \in CallIds, success \in BOOLEAN : logoutDone(c, success)
    \/ handleBeforeUnload

TeardownSpec == Init /\ [][TeardownNext]_vars

(***************************************************************************)
(* Properties                                                              *)
(***************************************************************************)

(* The key a binding stands for: its passphrase and its stored salt. *)
SetupKey(user) ==
    deriveKeyFromPassword(setupPassword[user],
                          atob(lsBinding[user].saltBase64)).material

HasBinding(user) == user # NoUser /\ lsBinding[user] # Null

StoredItems == loadVaultData.items

(* The items last saved as `type`, as the caller handed them over. *)
SavedOfType(type) == {e.item : e \in {x \in saved : x.type = type}}

(* C1: a setup call made for an account that has a binding returns the     *)
(* already-set error whatever the strength of the passphrase, and leaves   *)
(* the stored bindings as they are.                                        *)
C1_SetupTwiceAlreadySet ==
    [][\A password \in Passwords :
         (setupMasterPassword(password) /\ HasBinding(currentUser))
           => /\ result'.op = "setup"
              /\ result'.out = "already_set"
              /\ lsBinding' = lsBinding]_vars

C1_Witness ==
    /\ result.op = "setup"
    /\ result.out = "already_set"
    /\ result.password = PwHunter
    /\ HasBinding(currentUser)
    /\ calculatePasswordStrength(result.password) < MinStrengthScore

(* C2: once an account has a binding, no setup call for it returns success *)
(* and the salt of the stored binding is never overwritten.                *)
C2_BindingCreatedOnce ==
    [][\A user \in Users :
         lsBinding[user] # Null
           => /\ lsBinding'[user] # Null
              /\ lsBinding'[user].saltBase64 = lsBinding[user].saltBase64
              /\ ~(/\ result'.op = "setup"
                   /\ result'.out = "success"
                   /\ result'.user = user)]_vars

(* C3: for an account with a binding and a stored record, an unlock with a *)
(* passphrase other than the one of the setup returns the invalid-password *)
(* result.                                                                 *)
C3_WrongPassphraseRejected ==
    (/\ result.op = "unlock"
     /\ HasBinding(result.user)
     /\ result.password # setupPassword[result.user]
     /\ StoredItems # <<>>)
      => result.out = "invalid_password"

(* C4: once a binding exists, every stored record is wrapped under the key *)
(* derived from the passphrase of a binding and that binding's stored      *)
(* salt.                                                                   *)
C4_RecordsUnderSetupKey ==
    (\E user \in Users : lsBinding[user] # Null)
      => \A i \in 1..Len(StoredItems) :
           \E user \in Users :
             /\ lsBinding[user] # Null
             /\ StoredItems[i].encryptedKey.key = SetupKey(user)

(* C5: after an unlock with the passphrase of the binding, get(type)       *)
(* returns every item saved as that type on sessions of that passphrase    *)
(* and not deleted since, equal to what was saved.                         *)
C5_RoundTrip ==
    (/\ result.op = "get"
     /\ attempt = "right"
     /\ SessionOfBinding)
      => SavedOfType(result.type) \subseteq ItemSet(result.items)

(* C6: an unlock with an incorrect passphrase leaves the stored container  *)
(* as it is, and after the unlock with the correct passphrase that follows *)
(* it get(type) returns every stored record of that type.                  *)
WrongUnlock ==
    \E c \in CallIds, derived, stored \in BOOLEAN :
      /\ unlockVaultDone(c, derived, stored)
      /\ calls[c].password # setupPassword[calls[c].user]

C6_WrongUnlockHarmless ==
    [][/\ WrongUnlock => lsVault' = lsVault
       /\ (/\ attempt' = "wrong_then_right"
           /\ result'.op = "get"
           /\ vaultKey' # Null)
            => Len(result'.items)
                 = Cardinality({i \in 1..Len(StoredItems') :
                                  StoredItems'[i].type = result'.type})]_vars

(* C7: a record operation on a locked session fails with the vault-locked  *)
(* error.                                                                  *)
C7_LockedOperationsFail ==
    (/\ result.op \in {"save", "get", "update", "delete", "deleteMany"}
     /\ vaultKey = Null)
      => result.out = "vault_locked"

(* C8: while the session is unlocked its timer is pending and comes due    *)
(* one timeout after the last access; when it fires the session is locked, *)
(* the vault-locked event is the first since the unlock, and no timer is   *)
(* left to emit another.                                                   *)
C8_AutoLockOnce ==
    [][/\ vaultKey' # Null
            => \E t \in timers' : /\ t.id = lockTimeout'
                                  /\ t.due = lastAccess' + AUTO_LOCK_TIME
       /\ \A t \in timers :
            TimerFires(t) => /\ vaultKey' = Null
                             /\ firedSinceUnlock' = 1
                             /\ timers' = {}
       /\ firedSinceUnlock' <= 1]_vars

C8_Witness ==
    /\ vaultKey = Null
    /\ firedSinceUnlock = 1
    /\ now >= lastAccess + AUTO_LOCK_TIME
    /\ timers = {}

(* C9: lock() leaves no timer pending, no timer is pending while the       *)
(* session is locked, and a timer callback only ever runs on a session     *)
(* that an unlock has opened since.                                        *)
C9_NoFireAfterLock ==
    [][/\ lockVault => timers' = {} /\ lockTimeout' = NoTimer
       /\ vaultKey' = Null => timers' = {}
       /\ \A t \in timers : TimerFires(t) => vaultKey # Null]_vars

C9_Witness ==
    /\ attempt # "none"
    /\ currentUser # NoUser
    /\ masterPasswordData # Null
    /\ vaultKey = Null
    /\ firedSinceUnlock = 0
    /\ timers = {}
    /\ now >= lastAccess + AUTO_LOCK_TIME

(* C10: getVaultKey on an unlocked session restarts the timer, the timer   *)
(* never fires sooner than one timeout after the last unlock or            *)
(* getVaultKey, and at most one timer is pending.                          *)
C10_SlidingTimeout ==
    [][/\ (getVaultKey /\ vaultKey # Null)
            => timers' = {[id |-> lockTimeout', due |-> now + AUTO_LOCK_TIME]}
       /\ \A t \in timers :
            TimerFires(t) => now >= lastAccess + AUTO_LOCK_TIME
       /\ Cardinality(timers') <= 1]_vars

C10_Witness ==
    /\ result.op = "getVaultKey"
    /\ result.out = "key"
    /\ masterPasswordData # Null
    /\ masterPasswordData.lastUsedTimestamp < now
    /\ timers = {[id |-> lockTimeout, due |-> now + AUTO_LOCK_TIME]}

(* C11: the step in which logout or the tab close issues the sign-out      *)
(* leaves the session locked, and so does the step in which the identity   *)
(* provider reports that there is no user.                                 *)
C11_TeardownLocks ==
    [][/\ (logout \/ handleBeforeUnload)
            => (vaultKey' = Null /\ result'.op = "signOutIssued")
       /\ AuthStateChanged(NoUser) => (vaultKey' = Null /\ currentUser' = NoUser)
       /\ result'.op = "signOutIssued" => vaultKey' = Null]_vars

C11_Witness ==
    /\ result.op = "signOutIssued"
    /\ result.out = "logout"
    /\ attempt = "right"
    /\ currentUser # NoUser
    /\ vaultKey = Null
    /\ \E c \in CallIds : calls[c].op = "logout"

(* C12: an unlock called for a signed-in account that has no stored        *)
(* binding returns the setup-required result, starts no key derivation and *)
(* leaves the session and the storage as they are.                         *)
C12_UnlockWithoutBinding ==
    [][\A password \in Passwords :
         (/\ unlockVault(password)
          /\ currentUser # NoUser
          /\ lsBinding[currentUser] = Null)
           => /\ result'.op = "unlock"
              /\ result'.out = "requires_setup"
              /\ calls' = calls
              /\ UNCHANGED <<vaultVars, lsBinding, lsVault>>]_vars

(* C13: an import of a malformed backup (not JSON, no version, no items, a *)
(* record lacking a field, a record of a type outside the enumeration)     *)
(* fails and leaves the persisted container as it was, merging or not.     *)
C13_MalformedImportRejected ==
    [][\A backupData \in MalformedBackupTexts,
          mergeWithExisting, stored \in BOOLEAN :
         importVault(backupData, mergeWithExisting, stored)
           => /\ result'.op = "import"
              /\ result'.out = "import_failed"
              /\ result'.error # "Failed to save vault data"
              /\ lsVault' = lsVault]_vars

C13_Witness ==
    /\ result.op = "import"
    /\ result.out = "import_failed"
    /\ result.error = "Invalid vault data format"
    /\ lsVault # Null
    /\ Len(lsVault.items) > 0

(* C14: a merging import of a well-formed backup keeps every stored record *)
(* unchanged at its place and appends, in their order, the imported        *)
(* records whose id and type no stored record has, and no others.          *)
C14_MergeKeepsExisting ==
    [][\A data \in Backups \cup {OverlappingBackup} :
         importVault(JSONstringify(data), TRUE, TRUE)
           => LET old == loadVaultData.items
                  new == loadVaultData'.items
                  Fresh == {i \in ItemSet(data.items) :
                              \A j \in 1..Len(old) :
                                 ~(old[j].id = i.id /\ old[j].type = i.type)}
                  tail == SubSeq(new, Len(old) + 1, Len(new))
              IN  /\ result'.out = "ok"
                  /\ Len(new) >= Len(old)
                  /\ SubSeq(new, 1, Len(old)) = old
                  /\ ItemSet(tail) = Fresh
                  /\ Len(tail) = Cardinality(Fresh)
                  /\ \A a, b \in 1..Len(data.items) :
                       (a < b /\ data.items[a] \in Fresh
                              /\ data.items[b] \in Fresh)
                         => \E x, y \in 1..Len(tail) :
                              /\ x < y
                              /\ tail[x] = data.items[a]
                              /\ tail[y] = data.items[b]]_vars

(* a stored p1 password has survived the merge of a backup that holds      *)
(* another p1 password and a new record, which was appended.               *)
C14_Witness ==
    /\ result.op = "import"
    /\ result.out = "ok"
    /\ result.merge
    /\ lsVault # Null
    /\ lsVault.items
         = <<BackupItem([id |-> "p1", secret |-> "hunter2"], "password",
                        PwTroubador, 1),
             OverlappingBackup.items[2]>>

(* C15: a replacing import of a well-formed backup makes the persisted     *)
(* container the imported one: its records, in their order, and no other.  *)
C15_ReplaceSwapsContainer ==
    [][\A data \in Backups \cup {OverlappingBackup} :
         importVault(JSONstringify(data), FALSE, TRUE)
           => /\ result'.out = "ok"
              /\ loadVaultData' = data
              /\ \A i \in 1..Len(loadVaultData.items) :
                   loadVaultData.items[i] \in ItemSet(loadVaultData'.items)
                     => loadVaultData.items[i] \in ItemSet(data.items)]_vars

(* the two-record backup has replaced the container. *)
C15_Witness ==
    /\ result.op = "import"
    /\ result.out = "ok"
    /\ ~result.merge
    /\ lsVault = OverlappingBackup

(* The stored record decrypts under the key of the session: its item key   *)
(* is wrapped under the session key and its payload under that item key.   *)
DecryptsUnderSession(e) ==
    /\ vaultKey # Null
    /\ e.encryptedKey.key = vaultKey.masterKey.material
    /\ e.encryptedData.key = e.encryptedKey.data[2]

(* The places in the container of the records of the type that decrypt. *)
Readable(type) ==
    {i \in 1..Len(StoredItems) :
       StoredItems[i].type = type /\ DecryptsUnderSession(StoredItems[i])}

(* The k-th smallest member of a set of numbers. *)
Nth(S, k) == CHOOSE i \in S : Cardinality({j \in S : j < i}) = k - 1

(* C16: a read by type on an open session returns the payloads of exactly  *)
(* the stored records of that type that decrypt under the session key, in  *)
(* the order of the container; the others are skipped and the read         *)
(* succeeds.                                                               *)
C16_GetReturnsDecryptable ==
    (result.op = "get" /\ vaultKey # Null)
      => /\ result.out = "ok"
         /\ Len(result.items) = Cardinality(Readable(result.type))
         /\ \A k \in 1..Len(result.items) :
              result.items[k]
                = StoredItems[Nth(Readable(result.type),
                                  k)].encryptedData.data[2]

(* a read has returned the one record that decrypts of two of its type. *)
C16_Witness ==
    /\ result.op = "get"
    /\ vaultKey # Null
    /\ Len(result.items) = 1
    /\ Cardinality({i \in 1..Len(StoredItems) :
                      StoredItems[i].type = result.type}) = 2

(* The number of stored records of the type that a read on the open        *)
(* session skips.                                                          *)
Skipped(type) ==
    Cardinality({i \in 1..Len(StoredItems) :
                   StoredItems[i].type = type
                     /\ ~DecryptsUnderSession(StoredItems[i])})

(* C17: a read by type that has skipped records hands their number to the  *)
(* caller, as a count of corrupted records, with the records it returns.   *)
C17_CorruptionCountSurfaced ==
    (result.op = "get" /\ vaultKey # Null /\ Skipped(result.type) > 0)
      => /\ "corrupted" \in DOMAIN result
         /\ result.corrupted = Skipped(result.type)

(* The places in a list of stored records of the records of an id and type. *)
Places(items, id, type) ==
    {i \in 1..Len(items) : items[i].id = id /\ items[i].type = type}

(* The stored record holds the payload `item`. *)
Holds(e, item) == e.encryptedData.data = JSONstringify(item)

(* C18: an update of an id and type that the container does not hold fails *)
(* with the not-found error and leaves the container as it is; an update   *)
(* of a stored id and type, on an open session, puts the new record at the *)
(* place of the old one and leaves the other records as they are.          *)
C18_UpdateInPlace ==
    [][\A item \in PlainItems, type \in ItemTypes, random \in ItemKeys :
         updateItem(item, type, random, TRUE)
           => LET old == loadVaultData.items
                  new == loadVaultData'.items
                  at == Places(old, item.id, type)
              IN  /\ at = {}
                       => result'.out = "not_found" /\ lsVault' = lsVault
                  /\ (at # {} /\ vaultKey # Null)
                       => /\ result'.out = "ok"
                          /\ Len(new) = Len(old)
                          /\ \A i \in 1..Len(old) :
                               IF i \in at
                               THEN /\ new[i].id = item.id
                                    /\ new[i].type = type
                                    /\ Holds(new[i], item)
                               ELSE new[i] = old[i]]_vars

C20_NoPlaintextStored ==
    /\ \A i \in 1..Len(StoredItems) :
         /\ DOMAIN StoredItems[i].encryptedData = {"data", "key"}
         /\ DOMAIN StoredItems[i].encryptedKey = {"data", "key"}
    /\ \A user \in Users :
         lsBinding[user] # Null
           => DOMAIN lsBinding[user] \cap {"masterKey", "password"} = {}
    /\ \A i \in 1..Len(getValue) : "value" \notin DOMAIN getValue[i]

(* C21: a stored binding stays stored and keeps its account id, e-mail,    *)
(* salt, setup time and immutable flag at every step; it changes at all    *)
(* only in a step by which an unlock returns success.                      *)
C21_BindingFrame ==
    [][\A user \in Users :
         lsBinding[user] # Null
           => /\ lsBinding'[user] # Null
              /\ lsBinding'[user].userUid = lsBinding[user].userUid
              /\ lsBinding'[user].userEmail = lsBinding[user].userEmail
              /\ lsBinding'[user].saltBase64 = lsBinding[user].saltBase64
              /\ lsBinding'[user].setupTimestamp
                   = lsBinding[user].setupTimestamp
              /\ lsBinding'[user].isImmutable = lsBinding[user].isImmutable
              /\ lsBinding'[user] # lsBinding[user]
                   => result'.op = "unlock" /\ result'.out = "success"]_vars

(* The stored binding is one that the loader may trust for the account. *)
Trusted(binding, user) ==
    /\ binding # Null
    /\ binding.userUid = user
    /\ binding.isImmutable = TRUE

(* C22: at sign-in the stored binding of the account becomes the binding   *)
(* in use only if it names the account and is immutable; any other is      *)
(* removed and the account has no binding in use; and an unlock for an     *)
(* account whose stored binding is not trusted returns setup-required.     *)
C22_ForeignBindingDiscarded ==
    [][/\ \A user \in Users :
            AuthStateChanged(user)
              => IF Trusted(lsBinding[user], user)
                 THEN masterPasswordData' = lsBinding[user]
                 ELSE masterPasswordData' = Null /\ lsBinding'[user] = Null
       /\ \A password \in Passwords :
            (/\ unlockVault(password)
             /\ currentUser # NoUser
             /\ ~Trusted(lsBinding[currentUser], currentUser))
              => result'.out = "requires_setup"]_vars

(* C23: a mutation persists the container it has read with its own change  *)
(* applied, whatever was persisted since it read: a change persisted in    *)
(* between by another mutation is not in the container afterwards.         *)
C23_LaterWriteWins ==
    [][\A c \in CallIds :
         /\ deleteItemSave(c)
              => /\ loadVaultData'.items
                      = Without(calls[c].vaultData.items, calls[c].id,
                                calls[c].type)
                 /\ \A i \in 1..Len(calls[c].vaultData.items) :
                      LET e == calls[c].vaultData.items[i]
                      IN  ~(e.id = calls[c].id /\ e.type = calls[c].type)
                            => e \in ItemSet(loadVaultData'.items)
                 /\ ItemSet(loadVaultData'.items)
                      \subseteq ItemSet(calls[c].vaultData.items)
         /\ importVaultSave(c)
              => /\ SubSeq(loadVaultData'.items, 1,
                           Len(calls[c].vaultData.items))
                      = calls[c].vaultData.items
                 /\ ItemSet(loadVaultData'.items)
                      \subseteq ItemSet(calls[c].vaultData.items)
                                  \cup ItemSet(calls[c].importedData.items)]_vars

(* a delete has written over a container it had not read: a record that    *)
(* another mutation had removed in between is stored again.                *)
C23_Witness ==
    /\ result.op = "delete"
    /\ result.out = "ok"
    /\ result.loaded # result.replaced
    /\ \E i \in 1..Len(StoredItems) :
         StoredItems[i] \notin ItemSet(result.replaced.items)

(* C24: a setup called for a signed-in account that has no stored binding  *)
(* returns the weak-password error if and only if the score of the         *)
(* passphrase is below 6; and a setup that returns it stores no binding    *)
(* and leaves the session as it is.                                        *)
C24_WeakPassphraseRejected ==
    [][\A password \in Passwords :
         (/\ setupMasterPassword(password)
          /\ currentUser # NoUser
          /\ lsBinding[currentUser] = Null)
           => /\ (result'.op = "setup" /\ result'.out = "weak_password")
                   <=> calculatePasswordStrength(password) < MinStrengthScore
              /\ calculatePasswordStrength(password) < MinStrengthScore
                   => /\ calls' = calls
                      /\ UNCHANGED <<lsBinding, masterPasswordData,
                                     vaultVars>>]_vars

C26_SessionOfSignedInAccount ==
    vaultKey # Null
      => /\ currentUser # NoUser
         /\ lsBinding[currentUser] # Null
         /\ vaultKey.salt = atob(lsBinding[currentUser].saltBase64)

(* C27: a lock is not undone by an unlock that was started before it.  An  *)
(* unlock starts only for a signed-in account, and a sign-out locks; so an *)
(* unlock that completes while no account is signed in was started before  *)
(* that lock, and the session is locked after it has completed.            *)
C27_LockNotUndone ==
    [][\A c \in CallIds, derived, stored \in BOOLEAN :
         (unlockVaultDone(c, derived, stored) /\ currentUser = NoUser)
           => vaultKey' = Null]_vars

(* C28: in every state the auto-lock timer is pending if and only if the   *)
(* session holds a key: the handle kept by the session manager names a     *)
(* pending timer exactly when the key is held, and no other timer of the   *)
(* manager is pending.                                                     *)
C28_TimerIffUnlocked ==
    /\ vaultKey # Null <=> \E t \in timers : t.id = lockTimeout
    /\ vaultKey # Null <=> timers # {}
    /\ vaultKey = Null => lockTimeout = NoTimer

(* a read of the key has re-armed the timer of a session that was unlocked *)
(* a second time.                                                          *)
C28_Witness ==
    /\ vaultKey # Null
    /\ result.op = "getVaultKey"
    /\ vaultKey.timestamp > 0
    /\ lastAccess > vaultKey.timestamp
    /\ Cardinality(timers) = 1

(* C29: a setup that returns a failure has stored no binding and leaves    *)
(* the session with the key, or without a key, as it was: both where the   *)
(* failure is returned at once and where it is returned after the          *)
(* derivation.                                                             *)
C29_FailedSetupHarmless ==
    [][/\ \A password \in Passwords :
            (/\ setupMasterPassword(password)
             /\ result'.op = "setup"
             /\ result'.out # "success")
              => UNCHANGED <<vaultKey, lsBinding>>
       /\ \A c \in CallIds, derived, stored \in BOOLEAN :
            (/\ setupMasterPasswordDone(c, derived, stored)
             /\ result'.out # "success")
              => UNCHANGED <<vaultKey, lsBinding>>]_vars

(* C30: the persisted container holds no two records of one id and type.   *)
C30_NoDuplicateRecords ==
    \A i, j \in 1..Len(StoredItems) :
       (StoredItems[i].id = StoredItems[j].id
          /\ StoredItems[i].type = StoredItems[j].type)
         => i = j

====
